---- MODULE Spec2Model ----
(***************************************************************************)
(* Model of src/main.py: the Pub/Sub-triggered Dialogflow policy enforcer. *)
(*                                                                         *)
(* One behaviour is the life of one audit event: it is delivered to        *)
(* main_function, which decodes it, resolves the regional endpoint,        *)
(* dispatches on the log method and performs the remote calls of the       *)
(* selected remediation action one at a time.  Every remote call may fail; *)
(* a failed invocation is redelivered by the event bus, and a successful   *)
(* one may be delivered again (at-least-once delivery).                    *)
(*                                                                         *)
(* Strings that the code only compares or concatenates are sequences of    *)
(* tokens: a log method is a sequence of method tokens, a resource name    *)
(* the sequence of its '/'-separated segments, an endpoint the sequence of *)
(* its concatenated parts.  An optional JSON field is <<>> when the key is *)
(* absent and <<v>> when it is present with value v.                       *)
(***************************************************************************)
EXTENDS Integers, Sequences, FiniteSets, TLC

VARIABLES
    ev,         \* the event being delivered (fixed for the behaviour)
    remote,     \* the state of the resources behind the management API
    remote0,    \* history: the remote state before the first delivery
    snap,       \* history: <<remote>> at the first successful handling
    failedPartway, \* history: an invocation raised after collecting a response
    deliveries, \* number of repeated deliveries after a success
    pc,         \* position of the current invocation
    opts,       \* client_options: <<endpoint>> once resolved
    action,     \* the branch execute_policy_enforcer took
    target,     \* name passed to a list / set_agent / update_fulfillment call
    todo,       \* names a fan-out still has to process
    cur,        \* <<object>> fetched by the last get call
    acc,        \* responses collected so far
    result,     \* return value of execute_policy_enforcer
    err,        \* kind of the exception main_function raised
    calls       \* remote calls issued by the current invocation, in order

vars == <<ev, remote, remote0, snap, failedPartway, deliveries, pc, opts, action, target,
          todo, cur, acc, result, err, calls>>

----------------------------------------------------------------------------
(* Bounds of the model                                                     *)

MaxIdLen == 2        \* tokens in a log method
MaxAgents == 2       \* CX agents under the parent location
MaxWebhooks == 2     \* webhooks under agent a1
MaxDuplicates == 1   \* repeated deliveries after a successful handling

----------------------------------------------------------------------------
(* Program constants                                                       *)

log_policy == TRUE

WebhookUpdateMarker == "Webhooks.UpdateWebhook"
WebhookCreateMarker == "Webhooks.CreateWebhook"
AgentUpdateMarker == "Agents.UpdateAgent"
AgentCreateMarker == "Agents.CreateAgent"
FulfillmentUpdateMarker == "Fulfillments.UpdateFulfillment"

\* "Agents.UpdateAgentSettings" is "Agents.UpdateAgent" followed by "Settings"
AgentSettingsMarkerSeq == <<AgentUpdateMarker, "Settings">>

BaseDomain == "dialogflow.googleapis.com"

----------------------------------------------------------------------------
(* Strings                                                                 *)

\* Python's `sub in s` on token sequences
Contains(s, sub) ==
    \E i \in 1..(Len(s) - Len(sub) + 1) : SubSeq(s, i, i + Len(sub) - 1) = sub

\* truth value of a Python string used as a condition
Truthy(str) == str # ""

InSeq(x, s) == \E i \in 1..Len(s) : s[i] = x

IsPrefix(p, s) == Len(p) <= Len(s) /\ SubSeq(s, 1, Len(p)) = p

----------------------------------------------------------------------------
(* Resource names                                                          *)

Ids == <<"1", "2", "3", "4", "5", "6">>

ProjectName == <<"projects", "p">>
ParentName == ProjectName \o <<"locations", "l">>
AgentName(i) == ParentName \o <<"agents", "a" \o Ids[i]>>
WebhookName(i) == AgentName(1) \o <<"webhooks", "w" \o Ids[i]>>
FulfillmentName == ProjectName \o <<"agent", "fulfillment">>
ShortName == <<"projects">>

----------------------------------------------------------------------------
(* Remote resources and the management API                                 *)

\* AdvancedSettings.LoggingSettings(...)
LoggingSettings(sd, il) ==
    [enable_stackdriver_logging |-> sd, enable_interaction_logging |-> il]

\* AdvancedSettings(logging_settings=...): every other sub-field is default
AdvancedSettings(ls) == [logging_settings |-> ls, audio_export |-> ""]

Agent(nm, sd, il) ==
    [name |-> nm, display_name |-> nm[Len(nm)], time_zone |-> "tz",
     advanced_settings |->
        [logging_settings |-> LoggingSettings(sd, il), audio_export |-> "gs"]]

Webhook(nm, u, p) ==
    [name |-> nm, display_name |-> nm[Len(nm)],
     generic_web_service |-> [uri |-> "uri", username |-> u, password |-> p]]

Fulfillment(nm, u, p) ==
    [name |-> nm, enabled |-> TRUE,
     generic_web_service |-> [uri |-> "uri", username |-> u, password |-> p]]

EsAgent(parent, logging) ==
    [parent |-> parent, display_name |-> "dn", enable_logging |-> logging]

\* update_agent: the masked fields of the stored agent take the request's value
ApiUpdateAgent(old, req, mask) ==
    [name |-> old.name,
     display_name |->
        IF InSeq("display_name", mask) THEN req.display_name ELSE old.display_name,
     time_zone |->
        IF InSeq("time_zone", mask) THEN req.time_zone ELSE old.time_zone,
     advanced_settings |->
        IF InSeq("advanced_settings", mask) THEN req.advanced_settings
        ELSE old.advanced_settings]

\* the generic_web_service message under a field mask
ApiUpdateGws(old, req, mask) ==
    [uri |-> IF InSeq("generic_web_service.uri", mask) THEN req.uri ELSE old.uri,
     username |->
        IF InSeq("generic_web_service.username", mask) THEN req.username
        ELSE old.username,
     password |->
        IF InSeq("generic_web_service.password", mask) THEN req.password
        ELSE old.password]

\* update_webhook
ApiUpdateWebhook(old, req, mask) ==
    [name |-> old.name,
     display_name |->
        IF InSeq("display_name", mask) THEN req.display_name ELSE old.display_name,
     generic_web_service |->
        ApiUpdateGws(old.generic_web_service, req.generic_web_service, mask)]

\* update_fulfillment
ApiUpdateFulfillment(old, req, mask) ==
    [name |-> old.name,
     enabled |-> IF InSeq("enabled", mask) THEN req.enabled ELSE old.enabled,
     generic_web_service |->
        ApiUpdateGws(old.generic_web_service, req.generic_web_service, mask)]

\* set_agent (ES)
ApiSetAgent(old, req, mask) ==
    [parent |-> old.parent,
     display_name |->
        IF InSeq("display_name", mask) THEN req.display_name ELSE old.display_name,
     enable_logging |->
        IF InSeq("enable_logging", mask) THEN req.enable_logging
        ELSE old.enable_logging]

\* names in collection `coll` directly under `parent`
Children(names, parent, coll) ==
    {n \in names : /\ Len(n) = Len(parent) + 2
                   /\ IsPrefix(parent, n)
                   /\ n[Len(parent) + 1] = coll}

\* a list call returns the children in an order the API chooses
Listings(S) ==
    {s \in [1..Cardinality(S) -> S] :
        \A i, j \in 1..Cardinality(S) : i # j => s[i] # s[j]}

----------------------------------------------------------------------------
(* The event envelope and the audit record                                 *)

Event(enc, method, locs, name, parent) ==
    [enc |-> enc,
     record |-> [method |-> method, currentLocations |-> locs,
                 resourceName |-> name, parent |-> parent]]

\* base64.b64decode(event["data"]).decode("utf-8"); json.loads(...)
PayloadDecodes(e) == e.enc \notin {"bad_base64", "bad_utf8", "bad_json"}

\* pubsub_json["resource"]["labels"]["method"] does not raise KeyError
HasMethod(e) == e.record.method # <<>>

\* [...]["currentLocations"][0] raises neither KeyError nor IndexError
HasRegion(e) ==
    /\ e.record.currentLocations # <<>>
    /\ e.record.currentLocations[1] # <<>>

LogMethod(e) == e.record.method[1]
Region(e) == e.record.currentLocations[1][1]

\* the try-block of main_function reaches execute_policy_enforcer
DecodeOk(e) == PayloadDecodes(e) /\ HasMethod(e) /\ HasRegion(e)

\* variant: `except Exception: pass`, the invocation returns normally
main_except_swallow(e) == [pc |-> "done", err |-> "none"]

\* `except Exception: raise`: the exception leaves main_function
main_except(e) == [pc |-> "failed", err |-> e]

get_client_option(region) ==
    (IF region = "global" THEN <<>> ELSE <<region, "-">>) \o <<BaseDomain>>

----------------------------------------------------------------------------
(* execute_policy_enforcer: the if/elif chain                              *)

SelectAction(log_method) ==
    IF Contains(log_method, <<WebhookUpdateMarker>>) THEN "webhook-update"
    ELSE IF Contains(log_method, <<WebhookCreateMarker>>) THEN "webhook-create"
    ELSE IF Contains(log_method, AgentSettingsMarkerSeq)
        THEN "agent-settings-update"
    ELSE IF Contains(log_method, <<AgentUpdateMarker>>) THEN "agent-update"
    ELSE IF Contains(log_method, <<AgentCreateMarker>>) THEN "agent-create"
    ELSE IF Truthy(FulfillmentUpdateMarker) THEN "fulfillment-update"
    ELSE "none"

\* variant: the agent-create branch reads resourceName like the others
BranchField_AlwaysResourceName(a, e) == e.record.resourceName

\* the subscript each branch evaluates before its first remote call succeeds
BranchField(a, e) ==
    IF a = "agent-create" THEN e.record.parent ELSE e.record.resourceName

\* agent_parts[0], agent_parts[1] exist
HasProjectParts(name) == Len(name) >= 2

BranchReady(a, e) ==
    /\ BranchField(a, e) # <<>>
    /\ a = "agent-settings-update" => HasProjectParts(BranchField(a, e)[1])

FirstCall(a) ==
    CASE a = "webhook-update" -> "get_webhook"
      [] a = "webhook-create" -> "list_webhooks"
      [] a = "agent-settings-update" -> "set_agent"
      [] a = "agent-update" -> "get_agent"
      [] a = "agent-create" -> "list_agents"
      [] a = "fulfillment-update" -> "update_fulfillment"

\* f"{agent_parts[0]}/{agent_parts[1]}"
ParentOf(agent_name) == SubSeq(agent_name, 1, 2)

BranchTarget(a, e) ==
    IF a = "agent-settings-update" THEN ParentOf(BranchField(a, e)[1])
    ELSE BranchField(a, e)[1]

IsFanOut(a) == a \in {"webhook-create", "agent-create"}

----------------------------------------------------------------------------
(* Requests built by the remediation actions                               *)

\* variant: the mask also names display_name
AgentUpdateMask_Wide == <<"advanced_settings", "display_name">>

AgentUpdateMask == <<"advanced_settings">>

\* variant: only the stackdriver toggle is set from the policy
EnforcedAgent_StackdriverOnly(agent, policy) ==
    [agent EXCEPT !.advanced_settings =
        AdvancedSettings(LoggingSettings(policy,
            agent.advanced_settings.logging_settings.enable_interaction_logging))]

\* variant: the toggles are flipped instead of set
EnforcedAgent_Toggle(agent, policy) ==
    [agent EXCEPT !.advanced_settings =
        AdvancedSettings(LoggingSettings(
            ~agent.advanced_settings.logging_settings.enable_stackdriver_logging,
            ~agent.advanced_settings.logging_settings.enable_interaction_logging))]

\* enforce_agent_logging: the fetched agent with new advanced settings
EnforcedAgent(agent, policy) ==
    [agent EXCEPT !.advanced_settings =
        AdvancedSettings(LoggingSettings(policy, policy))]

\* variant: the mask names the username only
WebhookUpdateMask_UsernameOnly == <<"generic_web_service.username">>

WebhookUpdateMask ==
    <<"generic_web_service.username", "generic_web_service.password">>

\* delete_webhook_credentials: the fetched webhook with credentials cleared
ScrubbedWebhook(webhook) ==
    [webhook EXCEPT !.generic_web_service.username = "",
                    !.generic_web_service.password = ""]

FulfillmentUpdateMask ==
    <<"generic_web_service.username", "generic_web_service.password">>

\* remove_fullfillment: a fresh request, only name and credentials set
FulfillmentRequest(name) ==
    [name |-> name, enabled |-> FALSE,
     generic_web_service |-> [uri |-> "", username |-> "", password |-> ""]]

EsUpdateMask == <<"enable_logging">>

\* enforce_agent_logging_es: a fresh SetAgentRequest
EsAgentRequest(parent_name, policy) ==
    [parent |-> parent_name, display_name |-> "", enable_logging |-> policy]

\* variant: the iteration skips every second element
Rest_SkipsOne(names) ==
    IF Len(names) >= 2 THEN Tail(Tail(names)) ELSE Tail(names)

\* the list comprehension moves on to the next element
Rest(names) == Tail(names)

----------------------------------------------------------------------------
(* Results and the call log                                                *)

NoResult == [kind |-> "unset", value |-> <<>>]
ReturnFalse == [kind |-> "False", value |-> <<>>]
ReturnNone == [kind |-> "None", value |-> <<>>]
ReturnObject(o) == [kind |-> "object", value |-> <<o>>]
ReturnList(l) == [kind |-> "list", value |-> l]

Call(op, name, ok, mask, body) ==
    [op |-> op, name |-> name, ok |-> ok, mask |-> mask, body |-> body]

RemotePcs == {"get_webhook", "update_webhook", "list_webhooks", "set_agent",
              "get_agent", "update_agent", "list_agents", "update_fulfillment"}

\* the resource the pending call names
PendingName ==
    IF pc \in {"get_webhook", "get_agent"} THEN Head(todo)
    ELSE IF pc \in {"update_webhook", "update_agent"} THEN cur[1].name
    ELSE target

----------------------------------------------------------------------------
(* Initial remote states                                                   *)

Toggles == BOOLEAN \X BOOLEAN
Credentials == {"", "u"} \X {"", "p"}

AgentsOf(n, f) ==
    [nm \in {AgentName(i) : i \in 1..n} |->
        LET i == CHOOSE k \in 1..n : AgentName(k) = nm
        IN  Agent(nm, f[i][1], f[i][2])]

WebhooksOf(n, f) ==
    [nm \in {WebhookName(i) : i \in 1..n} |->
        LET i == CHOOSE k \in 1..n : WebhookName(k) = nm
        IN  Webhook(nm, f[i][1], f[i][2])]

EsAgentsOf(logging) ==
    [nm \in {ProjectName} |-> EsAgent(nm, logging)]

FulfillmentsOf(c) ==
    [nm \in {FulfillmentName} |-> Fulfillment(nm, c[1], c[2])]

DefaultAgents == AgentsOf(MaxAgents, [i \in 1..MaxAgents |-> <<FALSE, TRUE>>])
DefaultWebhooks ==
    WebhooksOf(MaxWebhooks, [i \in 1..MaxWebhooks |-> <<"u", "p">>])

DefaultWorld ==
    [agents |-> DefaultAgents, webhooks |-> DefaultWebhooks,
     es_agents |-> EsAgentsOf(FALSE),
     fulfillments |-> FulfillmentsOf(<<"u", "p">>)]

\* each world varies the resources of one family
AgentWorlds ==
    {[DefaultWorld EXCEPT !.agents = AgentsOf(n, f),
                          !.webhooks = IF n = 0 THEN WebhooksOf(0, <<>>) ELSE @] :
        n \in 0..MaxAgents, f \in [1..MaxAgents -> Toggles]}

WebhookWorlds ==
    {[DefaultWorld EXCEPT !.webhooks = WebhooksOf(n, f)] :
        n \in 0..MaxWebhooks, f \in [1..MaxWebhooks -> Credentials]}

EsWorlds ==
    {[DefaultWorld EXCEPT !.es_agents = EsAgentsOf(b),
                          !.fulfillments = FulfillmentsOf(c)] :
        b \in BOOLEAN, c \in Credentials}

Worlds == AgentWorlds \cup WebhookWorlds \cup EsWorlds

\* one agent with one webhook: the remote state of the dispatch runs
DispatchWorld ==
    [DefaultWorld EXCEPT !.agents = AgentsOf(1, <<<<FALSE, TRUE>>>>),
                         !.webhooks = WebhooksOf(1, <<<<"u", "p">>>>)]

----------------------------------------------------------------------------
(* Events                                                                  *)

Tokens == {WebhookUpdateMarker, WebhookCreateMarker, AgentUpdateMarker,
           "Settings", AgentCreateMarker, FulfillmentUpdateMarker, "v3."}

Methods == UNION {[1..n -> Tokens] : n \in 0..MaxIdLen}

SampleMethods ==
    {<<"v3.", WebhookUpdateMarker>>, <<"v3.", WebhookCreateMarker>>,
     <<AgentUpdateMarker, "Settings">>, <<"v3.", AgentUpdateMarker>>,
     <<"v3.", AgentCreateMarker>>, <<"v3.", FulfillmentUpdateMarker>>,
     <<"v3.">>, <<WebhookCreateMarker, AgentUpdateMarker>>}

Regions == {"global", "us-central1"}

BadPayloads ==
    {Event(enc, <<>>, <<>>, <<>>, <<>>) :
        enc \in {"bad_base64", "bad_utf8", "bad_json"}}

\* well-formed events of every kind
CoreEvents ==
    {Event("ok", <<m>>, <<<<r>>>>, <<n>>, <<ParentName>>) :
        m \in SampleMethods, r \in {"us-central1"},
        n \in {AgentName(1), WebhookName(1), FulfillmentName}}
    \cup BadPayloads

\* every method, with every field present or absent
AllEvents ==
    {Event("ok", <<m>>, l, n, p) :
        m \in Methods,
        l \in {<<>>, <<<<>>>>} \cup {<<<<r>>>> : r \in Regions},
        n \in {<<>>, <<AgentName(1)>>, <<WebhookName(1)>>,
               <<FulfillmentName>>, <<ShortName>>},
        p \in {<<>>, <<ParentName>>}}
    \cup {Event("ok", <<>>, <<<<"global">>>>, <<AgentName(1)>>, <<ParentName>>)}
    \cup BadPayloads

----------------------------------------------------------------------------
(* Init                                                                    *)

InitInvocation ==
    /\ pc = "start"
    /\ opts = <<>>
    /\ action = "unset"
    /\ target = <<>>
    /\ todo = <<>>
    /\ cur = <<>>
    /\ acc = <<>>
    /\ result = NoResult
    /\ err = "none"
    /\ calls = <<>>

Init ==
    /\ ev \in CoreEvents
    /\ remote \in Worlds
    /\ remote0 = remote
    /\ snap = <<>>
    /\ failedPartway = FALSE
    /\ deliveries = 0
    /\ InitInvocation

InitDispatch ==
    /\ ev \in AllEvents
    /\ remote = DispatchWorld
    /\ remote0 = remote
    /\ snap = <<>>
    /\ failedPartway = FALSE
    /\ deliveries = 0
    /\ InitInvocation

----------------------------------------------------------------------------
(* main_function                                                           *)

history == <<ev, remote0, snap, failedPartway, deliveries>>

\* lines 33-39: decode the payload, read method and region, resolve endpoint
MainDecode ==
    /\ pc = "start"
    /\ IF DecodeOk(ev)
       THEN /\ opts' = <<get_client_option(Region(ev))>>
            /\ pc' = "dispatch"
            /\ err' = err
       ELSE /\ opts' = opts
            /\ pc' = main_except("malformed").pc
            /\ err' = main_except("malformed").err
    /\ UNCHANGED <<history, remote, action, target, todo, cur, acc, result, calls>>

\* execute_policy_enforcer up to the first remote call of the branch taken
Dispatch ==
    /\ pc = "dispatch"
    /\ LET a == SelectAction(LogMethod(ev)) IN
        /\ action' = a
        /\ IF a = "none"
           THEN /\ pc' = "done"
                /\ result' = ReturnFalse
                /\ UNCHANGED <<target, todo, err>>
           ELSE IF ~BranchReady(a, ev)
           THEN /\ pc' = main_except("malformed").pc
                /\ err' = main_except("malformed").err
                /\ UNCHANGED <<target, todo, result>>
           ELSE /\ pc' = FirstCall(a)
                /\ target' = BranchTarget(a, ev)
                /\ todo' = IF IsFanOut(a) THEN <<>> ELSE <<BranchTarget(a, ev)>>
                /\ UNCHANGED <<result, err>>
    /\ UNCHANGED <<history, remote, opts, cur, acc, calls>>

----------------------------------------------------------------------------
(* Remote calls of the remediation actions                                 *)

\* after one element of a comprehension: next element, or return
Advance(response, getPc) ==
    LET acc1 == Append(acc, response)
        todo1 == Rest(todo)
    IN  /\ acc' = acc1
        /\ todo' = todo1
        /\ cur' = <<>>
        /\ IF todo1 # <<>>
           THEN pc' = getPc /\ result' = result
           ELSE /\ pc' = "done"
                /\ result' = IF IsFanOut(action) THEN ReturnList(acc1)
                             ELSE ReturnObject(response)

\* webhook_client.list_webhooks(parent=agent_id)
ListWebhooks ==
    /\ pc = "list_webhooks"
    /\ \E l \in Listings(Children(DOMAIN remote.webhooks, target, "webhooks")) :
        /\ calls' = Append(calls, Call("list_webhooks", target, TRUE, <<>>, <<>>))
        /\ todo' = l
        /\ IF l # <<>>
           THEN pc' = "get_webhook" /\ result' = result
           ELSE pc' = "done" /\ result' = ReturnList(<<>>)
    /\ UNCHANGED <<history, remote, opts, action, target, cur, acc, err>>

\* webhook_client.get_webhook(name=webhook_name)
GetWebhook ==
    /\ pc = "get_webhook"
    /\ Head(todo) \in DOMAIN remote.webhooks
    /\ cur' = <<remote.webhooks[Head(todo)]>>
    /\ calls' = Append(calls, Call("get_webhook", Head(todo), TRUE, <<>>, <<>>))
    /\ pc' = "update_webhook"
    /\ UNCHANGED <<history, remote, opts, action, target, todo, acc, result, err>>

\* webhook_client.update_webhook(request=request)
UpdateWebhook ==
    /\ pc = "update_webhook"
    /\ LET body == ScrubbedWebhook(cur[1])
           mask == WebhookUpdateMask
           response == ApiUpdateWebhook(remote.webhooks[body.name], body, mask)
       IN  /\ remote' = [remote EXCEPT !.webhooks[body.name] = response]
           /\ calls' = Append(calls,
                  Call("update_webhook", body.name, TRUE, mask, <<body>>))
           /\ Advance(response, "get_webhook")
    /\ UNCHANGED <<history, opts, action, target, err>>

\* agents_client.list_agents(parent=parent)
ListAgents ==
    /\ pc = "list_agents"
    /\ \E l \in Listings(Children(DOMAIN remote.agents, target, "agents")) :
        /\ calls' = Append(calls, Call("list_agents", target, TRUE, <<>>, <<>>))
        /\ todo' = l
        /\ IF l # <<>>
           THEN pc' = "get_agent" /\ result' = result
           ELSE pc' = "done" /\ result' = ReturnList(<<>>)
    /\ UNCHANGED <<history, remote, opts, action, target, cur, acc, err>>

\* agents_client.get_agent(name=name)
GetAgent ==
    /\ pc = "get_agent"
    /\ Head(todo) \in DOMAIN remote.agents
    /\ cur' = <<remote.agents[Head(todo)]>>
    /\ calls' = Append(calls, Call("get_agent", Head(todo), TRUE, <<>>, <<>>))
    /\ pc' = "update_agent"
    /\ UNCHANGED <<history, remote, opts, action, target, todo, acc, result, err>>

\* agents_client.update_agent(request=request)
UpdateAgent ==
    /\ pc = "update_agent"
    /\ LET body == EnforcedAgent(cur[1], log_policy)
           mask == AgentUpdateMask
           response == ApiUpdateAgent(remote.agents[body.name], body, mask)
       IN  /\ remote' = [remote EXCEPT !.agents[body.name] = response]
           /\ calls' = Append(calls,
                  Call("update_agent", body.name, TRUE, mask, <<body>>))
           /\ Advance(response, "get_agent")
    /\ UNCHANGED <<history, opts, action, target, err>>

\* agents_client.set_agent(request) of enforce_agent_logging_es
SetAgentEs ==
    /\ pc = "set_agent"
    /\ target \in DOMAIN remote.es_agents
    /\ LET body == EsAgentRequest(target, log_policy)
           mask == EsUpdateMask
           response == ApiSetAgent(remote.es_agents[target], body, mask)
       IN  /\ remote' = [remote EXCEPT !.es_agents[target] = response]
           /\ calls' = Append(calls,
                  Call("set_agent", target, TRUE, mask, <<body>>))
    /\ pc' = "done"
    /\ result' = ReturnNone
    /\ UNCHANGED <<history, opts, action, target, todo, cur, acc, err>>

\* fullfillment_client.update_fulfillment(request) of remove_fullfillment
UpdateFulfillment ==
    /\ pc = "update_fulfillment"
    /\ target \in DOMAIN remote.fulfillments
    /\ LET body == FulfillmentRequest(target)
           mask == FulfillmentUpdateMask
           response == ApiUpdateFulfillment(remote.fulfillments[target], body, mask)
       IN  /\ remote' = [remote EXCEPT !.fulfillments[target] = response]
           /\ calls' = Append(calls,
                  Call("update_fulfillment", target, TRUE, mask, <<body>>))
    /\ pc' = "done"
    /\ result' = ReturnNone
    /\ UNCHANGED <<history, opts, action, target, todo, cur, acc, err>>

\* the pending remote call raises (not found, permission denied, unavailable)
RemoteFail ==
    /\ pc \in RemotePcs
    /\ calls' = Append(calls, Call(pc, PendingName, FALSE, <<>>, <<>>))
    /\ pc' = main_except("remote").pc
    /\ err' = main_except("remote").err
    /\ UNCHANGED <<history, remote, opts, action, target, todo, cur, acc, result>>

----------------------------------------------------------------------------
(* The event bus                                                           *)

\* a fresh invocation of main_function: no state survives the previous one
NewInvocation ==
    /\ pc' = "start"
    /\ opts' = <<>>
    /\ action' = "unset"
    /\ target' = <<>>
    /\ todo' = <<>>
    /\ cur' = <<>>
    /\ acc' = <<>>
    /\ result' = NoResult
    /\ err' = "none"
    /\ calls' = <<>>

\* the invocation raised: the event is delivered again
Redeliver ==
    /\ pc = "failed"
    /\ failedPartway' = (failedPartway \/ acc # <<>>)
    /\ NewInvocation
    /\ UNCHANGED <<ev, remote0, snap, deliveries, remote>>

\* the invocation returned, and the event is delivered once more
DuplicateDelivery ==
    /\ pc = "done"
    /\ deliveries < MaxDuplicates
    /\ deliveries' = deliveries + 1
    /\ snap' = IF snap = <<>> THEN <<remote>> ELSE snap
    /\ NewInvocation
    /\ UNCHANGED <<ev, remote0, failedPartway, remote>>

Next ==
    \/ MainDecode
    \/ Dispatch
    \/ ListWebhooks
    \/ GetWebhook
    \/ UpdateWebhook
    \/ ListAgents
    \/ GetAgent
    \/ UpdateAgent
    \/ SetAgentEs
    \/ UpdateFulfillment
    \/ RemoteFail
    \/ Redeliver
    \/ DuplicateDelivery

Spec == Init /\ [][Next]_vars

SpecDispatch == InitDispatch /\ [][Next]_vars

----------------------------------------------------------------------------
(* Properties                                                              *)

\* the dispatch markers, in the order the specification gives
MarkerOrder ==
    << <<<<WebhookUpdateMarker>>, "webhook-update">>,
       <<<<WebhookCreateMarker>>, "webhook-create">>,
       <<<<AgentUpdateMarker, "Settings">>, "agent-settings-update">>,
       <<<<AgentUpdateMarker>>, "agent-update">>,
       <<<<AgentCreateMarker>>, "agent-create">>,
       <<<<FulfillmentUpdateMarker>>, "fulfillment-update">> >>

Matching(m) == {i \in 1..Len(MarkerOrder) : Contains(m, MarkerOrder[i][1])}

NoMarker(m) == Matching(m) = {}

\* the action of the first marker the id contains, "none" without one
FirstMatch(m) ==
    IF NoMarker(m) THEN "none"
    ELSE MarkerOrder[CHOOSE i \in Matching(m) : \A j \in Matching(m) : i <= j][2]

\* the remote operations each remediation action may issue
OpsOf(a) ==
    CASE a = "webhook-update" -> {"get_webhook", "update_webhook"}
      [] a = "webhook-create" -> {"list_webhooks", "get_webhook", "update_webhook"}
      [] a = "agent-settings-update" -> {"set_agent"}
      [] a = "agent-update" -> {"get_agent", "update_agent"}
      [] a = "agent-create" -> {"list_agents", "get_agent", "update_agent"}
      [] a = "fulfillment-update" -> {"update_fulfillment"}
      [] OTHER -> {}

Dispatched == DecodeOk(ev) /\ pc \notin {"start", "dispatch"}

\* C1: an operation id containing none of the markers returns False and
\* issues no remote call.
C1_UnmatchedIsNoOp ==
    (DecodeOk(ev) /\ NoMarker(LogMethod(ev))) =>
        /\ calls = <<>>
        /\ pc \notin RemotePcs
        /\ pc = "done" => result = ReturnFalse

\* C2: the branch taken is that of the first marker the id contains, none
\* when it contains no marker, and only that action's remote calls are made.
C2_FirstMatchWins ==
    Dispatched =>
        /\ action = FirstMatch(LogMethod(ev))
        /\ \A i \in 1..Len(calls) : calls[i].op \in OpsOf(FirstMatch(LogMethod(ev)))

\* C2 restricted to ids that contain a marker (holds; in particular an id
\* with Agents.UpdateAgentSettings takes the ES branch only).
C2_FirstMatchWinsWhenMarked ==
    (Dispatched /\ ~NoMarker(LogMethod(ev))) =>
        /\ action = FirstMatch(LogMethod(ev))
        /\ \A i \in 1..Len(calls) : calls[i].op \in OpsOf(FirstMatch(LogMethod(ev)))

\* C3: a Webhooks.UpdateWebhook event on webhook w makes exactly one
\* get-webhook on w, then one update-webhook on w with username and password
\* empty under the mask [generic_web_service.username,
\* generic_web_service.password], and no other remote call.
C3_WebhookUpdateCalls ==
    (Dispatched /\ Contains(LogMethod(ev), <<"Webhooks.UpdateWebhook">>)
                /\ ev.record.resourceName # <<>>) =>
        LET w == ev.record.resourceName[1] IN
        /\ action = "webhook-update"
        /\ Len(calls) <= 2
        /\ \A i \in 1..Len(calls) :
            /\ calls[i].name = w
            /\ calls[i].ok =>
                calls[i].op = (IF i = 1 THEN "get_webhook" ELSE "update_webhook")
            /\ (calls[i].ok /\ i = 2) =>
                /\ calls[i].mask = <<"generic_web_service.username",
                                     "generic_web_service.password">>
                /\ calls[i].body[1].generic_web_service.username = ""
                /\ calls[i].body[1].generic_web_service.password = ""
        /\ pc = "done" =>
            /\ Len(calls) = 2
            /\ remote.webhooks[w].generic_web_service.username = ""
            /\ remote.webhooks[w].generic_web_service.password = ""

C3_Witness ==
    /\ pc = "done"
    /\ action = "webhook-update"
    /\ deliveries = 0
    /\ remote0.webhooks[ev.record.resourceName[1]].generic_web_service.password = "p"

\* C4: an Agents.CreateAgent event with parent P and N agents listed under P
\* makes, when no call fails, one list call, then exactly N get-agent and N
\* update-agent calls, one pair per listed agent, each update setting both
\* logging toggles to true, and returns a list of length N.
C4_CreateAgentFanOut ==
    (pc = "done" /\ Contains(LogMethod(ev), <<"Agents.CreateAgent">>)
                 /\ action = "agent-create") =>
        LET P == ev.record.parent[1]
            S == Children(DOMAIN remote.agents, P, "agents")
            N == Cardinality(S)
        IN  /\ Len(calls) = 2 * N + 1
            /\ calls[1] = Call("list_agents", P, TRUE, <<>>, <<>>)
            /\ \A k \in 1..N :
                /\ calls[2 * k] = Call("get_agent", calls[2 * k].name, TRUE, <<>>, <<>>)
                /\ calls[2 * k + 1].op = "update_agent"
                /\ calls[2 * k + 1].ok
                /\ calls[2 * k + 1].name = calls[2 * k].name
                /\ calls[2 * k + 1].body[1].advanced_settings.logging_settings
                     = [enable_stackdriver_logging |-> TRUE,
                        enable_interaction_logging |-> TRUE]
                /\ remote.agents[calls[2 * k].name].advanced_settings.logging_settings
                     = [enable_stackdriver_logging |-> TRUE,
                        enable_interaction_logging |-> TRUE]
            /\ {calls[2 * k].name : k \in 1..N} = S
            /\ result.kind = "list"
            /\ Len(result.value) = N

C4_Witness ==
    /\ pc = "done"
    /\ action = "agent-create"
    /\ deliveries = 0
    /\ Len(result.value) = 2
    /\ \E nm \in DOMAIN remote0.agents :
        remote0.agents[nm].advanced_settings.logging_settings
            = [enable_stackdriver_logging |-> TRUE,
               enable_interaction_logging |-> FALSE]

\* C5: when a remote call fails, it is the last call of the invocation and
\* main_function ends with that error raised; it never returns a result.
C5_RemoteFailurePropagates ==
    /\ \A i \in 1..Len(calls) :
        ~calls[i].ok =>
            /\ i = Len(calls)
            /\ pc = "failed"
            /\ err = "remote"
            /\ result = NoResult
    /\ pc = "done" => (err = "none" /\ \A i \in 1..Len(calls) : calls[i].ok)

C5_Witness ==
    /\ pc = "failed"
    /\ err = "remote"
    /\ IsFanOut(action)
    /\ Len(calls) = 4
    /\ ~calls[4].ok

PayloadMalformed(e) == e.enc \in {"bad_base64", "bad_utf8", "bad_json"}

RecordLacksField(e) ==
    \/ ~HasMethod(e)
    \/ IF SelectAction(LogMethod(e)) = "agent-create"
       THEN e.record.parent = <<>>
       ELSE e.record.resourceName = <<>>

\* C6: an event whose payload does not decode, or whose record lacks the
\* method or the field its branch needs (request.parent for agent creation,
\* resourceName otherwise), fails with a malformed-event error before any
\* remote call.
C6_MalformedFailsBeforeCalls ==
    (PayloadMalformed(ev) \/ RecordLacksField(ev)) =>
        /\ calls = <<>>
        /\ pc \in {"start", "dispatch", "failed"}
        /\ pc = "failed" => err = "malformed"

C6_Witness ==
    /\ pc = "failed"
    /\ DecodeOk(ev)
    /\ action = "agent-create"
    /\ ev.record.parent = <<>>
    /\ ev.record.resourceName # <<>>

\* C7: running a remediation action again on the state it produced changes
\* nothing: after a second complete handling of the same event the remote
\* state is the one the first handling left; and delete_webhook_credentials
\* on a webhook whose credentials are already empty completes and leaves
\* the remote state as it was.
C7_Idempotent ==
    /\ (pc = "done" /\ snap # <<>>) => remote = snap[1]
    /\ (pc = "done" /\ action = "webhook-update") =>
        LET w == remote0.webhooks[ev.record.resourceName[1]].generic_web_service
        IN  (w.username = "" /\ w.password = "") => remote = remote0

C7_Witness ==
    /\ pc = "done"
    /\ deliveries = 1
    /\ snap # <<>>
    /\ snap[1] # remote0
    /\ action \in {"agent-update", "agent-create"}
    /\ Len(calls) >= 2

\* C8: every update-agent call carries the field mask [advanced_settings],
\* and every agent field other than advanced_settings keeps the value it
\* had before the handling.
C8_OnlyAdvancedSettings ==
    /\ \A i \in 1..Len(calls) :
        (calls[i].op = "update_agent" /\ calls[i].ok) =>
            calls[i].mask = <<"advanced_settings">>
    /\ DOMAIN remote.agents = DOMAIN remote0.agents
    /\ \A nm \in DOMAIN remote.agents :
        /\ remote.agents[nm].name = remote0.agents[nm].name
        /\ remote.agents[nm].display_name = remote0.agents[nm].display_name
        /\ remote.agents[nm].time_zone = remote0.agents[nm].time_zone

C8_Witness ==
    /\ calls # <<>>
    /\ calls[Len(calls)].op = "update_agent"
    /\ calls[Len(calls)].ok
    /\ remote.agents[calls[Len(calls)].name].advanced_settings
         # remote0.agents[calls[Len(calls)].name].advanced_settings

\* C9: the endpoint is the bare base domain for region "global" and for an
\* absent region, and region-base domain for any other region; an event
\* whose currentLocations is absent or empty is still resolved and
\* dispatched.
C9_EndpointResolution ==
    (PayloadDecodes(ev) /\ HasMethod(ev) /\ pc # "start") =>
        /\ err # "malformed" \/ action # "unset"
        /\ opts = << IF ~HasRegion(ev) THEN <<"dialogflow.googleapis.com">>
                     ELSE IF Region(ev) = "global"
                          THEN <<"dialogflow.googleapis.com">>
                     ELSE <<Region(ev), "-", "dialogflow.googleapis.com">> >>

\* the part of C9 about present regions (holds)
C9_PresentRegionResolution ==
    (DecodeOk(ev) /\ pc # "start") =>
        opts = << IF Region(ev) = "global" THEN <<"dialogflow.googleapis.com">>
                  ELSE <<Region(ev), "-", "dialogflow.googleapis.com">> >>

\* the remote state a handling of event e without failures leaves from r
Remediate(e, r) ==
    LET a == SelectAction(LogMethod(e))
        t == BranchTarget(a, e)
        scrub(w) == ApiUpdateWebhook(w, ScrubbedWebhook(w), WebhookUpdateMask)
        enforce(g) == ApiUpdateAgent(g, EnforcedAgent(g, log_policy), AgentUpdateMask)
    IN  CASE a = "webhook-update" ->
                [r EXCEPT !.webhooks[t] = scrub(@)]
          [] a = "webhook-create" ->
                [r EXCEPT !.webhooks =
                    [nm \in DOMAIN @ |->
                        IF nm \in Children(DOMAIN @, t, "webhooks")
                        THEN scrub(@[nm]) ELSE @[nm]]]
          [] a = "agent-settings-update" ->
                [r EXCEPT !.es_agents[t] =
                    ApiSetAgent(@, EsAgentRequest(t, log_policy), EsUpdateMask)]
          [] a = "agent-update" ->
                [r EXCEPT !.agents[t] = enforce(@)]
          [] a = "agent-create" ->
                [r EXCEPT !.agents =
                    [nm \in DOMAIN @ |->
                        IF nm \in Children(DOMAIN @, t, "agents")
                        THEN enforce(@[nm]) ELSE @[nm]]]
          [] a = "fulfillment-update" ->
                [r EXCEPT !.fulfillments[t] =
                    ApiUpdateFulfillment(@, FulfillmentRequest(t),
                                         FulfillmentUpdateMask)]
          [] OTHER -> r

\* C10: whenever a handling completes, after any number of failed and
\* redelivered invocations, the remote state is the one a single handling
\* without failures produces from the initial state; and within one
\* invocation no remote call is repeated and none follows a failed call.
C10_RedeliverySafe ==
    /\ pc = "done" => remote = Remediate(ev, remote0)
    /\ \A i, j \in 1..Len(calls) :
        i < j => /\ calls[i].ok
                 /\ ~(calls[i].op = calls[j].op /\ calls[i].name = calls[j].name)

C10_Witness ==
    /\ pc = "done"
    /\ deliveries = 0
    /\ action = "agent-create"
    /\ failedPartway
    /\ Len(result.value) = 2
    /\ \A nm \in DOMAIN remote0.agents : remote.agents[nm] # remote0.agents[nm]

====
